---- MODULE Spec2Model ----
(***************************************************************************)
(* Tiny Electronic Dice (firmware/main.c): the main loop of the firmware   *)
(* as a state machine.  One action per statement group of the loop, in     *)
(* program order, plus the hardware events the loop reacts to: a watchdog  *)
(* time-out (the 16 ms tick) and a change of the raw button level.         *)
(*                                                                         *)
(* Hardware conventions (ATtiny25/45/85):                                  *)
(*  - a watchdog time-out raises the watchdog interrupt flag WDIF; the     *)
(*    interrupt is served when WDIF, WDIE and the I flag are set; serving  *)
(*    it clears WDIF and, in "interrupt then reset" mode, WDIE, so that    *)
(*    WDT_TIMEDOUT(), which reads !WDIE, is true from then on;             *)
(*  - a raised and enabled interrupt is served at once while the I flag is *)
(*    set and the processor runs (both handlers are empty), stays pending  *)
(*    while the I flag is clear, and wakes the processor when it sleeps;   *)
(*  - the instruction that follows sei() is executed before any pending    *)
(*    interrupt is served;                                                 *)
(*  - writing WDTCR with WDIF read as one clears WDIF (WDT_INT_RESET is a  *)
(*    read-modify-write); wdt_disable() writes WDIF as zero, which leaves  *)
(*    it, and clears WDE and WDIE;                                         *)
(*  - one loop iteration takes microseconds, a tick period 16 ms: no       *)
(*    time-out occurs before the previous one was acknowledged by          *)
(*    WDT_INT_RESET(), nor before the processor has reached sleep_cpu()    *)
(*    since the previous one or since the watchdog was started.            *)
(***************************************************************************)
EXTENDS Integers, Naturals, Sequences, FiniteSets, TLC

\* ---- bounds of the model ------------------------------------------------
MaxEdges == 3         \* changes of the raw button level in one behaviour
MaxHold == 3          \* a press is released within MaxHold ticks; the first press may also last for ever
MaxCalls == 300       \* calls of genRandom() followed when the generator is examined alone

\* ---- constants of main.c ------------------------------------------------
VLOWBATT == 2400
VREF == 1100
LOWBATT_VAL == VREF \div (VLOWBATT \div 255)

\* ((uint8_t)((ms / 16) + 0.5)): ms / 16 is an integer division, the sum is
\* truncated by the cast; computed here in halves.
TMR_MS(ms) == ((2 * (ms \div 16)) + 1) \div 2

BATT_OK == 0
BATT_DOCHECK == 1
BATT_LOWWARN == 2
BATT_LOW == 3

BTN_NOTPRESSED == 0
BTN_PRESSED == 1
BTN_DEBOUNCING == 2

STATE_IDLE == 0
STATE_ROLL == 1
STATE_ROLLDONE == 2
STATE_STEADY == 3

\* bits of PORTB
PB0 == 1
PB1 == 2
PB2 == 4
PB3 == 8
PB4 == 16

\* portVals[], indexed from 1 here (portVals[val] of the C code is portVals[val + 1])
portVals == << 0, PB4, PB1, PB1 + PB4, PB1 + PB2, PB1 + PB2 + PB4, PB0 + PB1 + PB2 >>

\* rollDelays[], indexed from 1 here
rollDelays == << 0, TMR_MS(50), TMR_MS(100), TMR_MS(200), TMR_MS(400) >>
ROLLDELAY_COUNT == Len(rollDelays)

\* ---- 8-bit arithmetic ---------------------------------------------------
U8(n) == n % 256

RECURSIVE BitOp(_, _, _, _)
\* bitwise combination of the low k bits of a and b; op is "xor" or "and"
BitOp(op, a, b, k) ==
  IF k = 0 THEN 0
  ELSE LET ba == a % 2
           bb == b % 2
           bit == IF op = "xor" THEN (ba + bb) % 2 ELSE ba * bb
       IN bit + 2 * BitOp(op, a \div 2, b \div 2, k - 1)

Xor8(a, b) == BitOp("xor", a, b, 8)
And8(a, b) == BitOp("and", a, b, 8)
Or8(a, b) == a + b - And8(a, b)
Sub8MutNoCast(a, b) == a - b
Sub8(a, b) == U8(a - b + 256)
Shl8(a, n) == U8(a * (2 ^ n))
Shr8(a, n) == a \div (2 ^ n)

\* ---- genRandom ----------------------------------------------------------
Seed == 86

\* lines 78-81: the initial values of the statics x, y, z, a
rngInitMutZero == [x |-> 0, y |-> 0, z |-> 0, a |-> 0]
rngInit == [x |-> 0, y |-> 0, z |-> 0, a |-> Seed]

\* the generator state after one call of genRandom(); the value returned is .a
genRandom(r) ==
  LET t == Xor8(r.x, Shl8(r.x, 4))
  IN [x |-> r.y, y |-> r.z, z |-> r.a,
      a |-> Xor8(Xor8(r.a, t), Xor8(Shr8(r.a, 1), Shl8(t, 1)))]

\* ---- diceSet ------------------------------------------------------------
LedMask == PB0 + PB1 + PB2 + PB4

\* the values portVals[val] can read: the table entry, or any byte when val is
\* outside the table (a read past the end of the array)
PortValsAt(val) == IF val < Len(portVals) THEN {portVals[val + 1]} ELSE 0..255

\* the values PORTB can hold after diceSet(val)
diceSet(port, val) ==
  {Or8(And8(port, 255 - LedMask), pv) : pv \in PortValsAt(val)}

\* the face shown by the LED lines of PORTB (0 = blank, 7 = no face of the table)
FaceOf(port) ==
  IF \E f \in 0..6 : portVals[f + 1] = And8(port, LedMask)
  THEN CHOOSE f \in 0..6 : portVals[f + 1] = And8(port, LedMask)
  ELSE 7

\* the values rollDelays[idx] can read (any byte past the end of the array)
RollDelaysAt(idx) == IF idx < ROLLDELAY_COUNT THEN {rollDelays[idx + 1]} ELSE 0..255

\* ---- state --------------------------------------------------------------
VARIABLES
  now, timer, state, lowBatt, rollResult, nextRollChangeDelay,
  btnPressState, btnReleasedTime, blinkCount, blinkState,   \* locals of main()
  i,                \* the counter of the warm-up loop
  rng,              \* the statics x, y, z, a of genRandom()
  pc,               \* the line main() is about to execute
  PORTB,            \* the output register
  ADCH,             \* the last battery sample
  WDE, WDIE, WDIF,  \* watchdog: running, interrupt armed, interrupt pending
  PCIF,             \* pin-change interrupt pending
  IFlag,            \* global interrupt enable
  btnRaw,           \* BTN_ISPRESSED(): the raw level of the button
  vbat,             \* the supply voltage, as the converter reads it against the 1.1 V reference
  budget,           \* environment: the level changes it makes in this behaviour
  edges, held,      \* environment: level changes so far, ticks the button has been down
  btnPrev, statePrev, \* btnPressState and state before the last button step
  draws,            \* calls of genRandom() made by the loop
  warnWrites,       \* display writes of the warning in progress or ended in this iteration
  sampled,          \* calls of battLevel() made by this iteration of the loop
  slept,            \* the processor has executed sleep_cpu() since the watchdog last timed out or started
  raisedWdt, raisedPc \* a time-out, a pin change, has occurred since the pending-tick check of this iteration

vars == << now, timer, state, lowBatt, rollResult, nextRollChangeDelay,
           btnPressState, btnReleasedTime, blinkCount, blinkState, i, rng, pc,
           PORTB, ADCH, WDE, WDIE, WDIF, PCIF, IFlag, btnRaw, vbat, budget,
           edges, held, btnPrev, statePrev, draws, warnWrites, sampled, slept,
           raisedWdt, raisedPc >>

locals == << now, timer, state, lowBatt, rollResult, nextRollChangeDelay,
             btnPressState, btnReleasedTime, blinkCount, blinkState >>
hw == << PORTB, ADCH, WDE, WDIE, WDIF, PCIF, IFlag >>
env == << btnRaw, vbat, budget, edges, held >>
hist == << btnPrev, statePrev, draws, warnWrites, sampled >>
raised == << raisedWdt, raisedPc >>

\* the supply readings explored: the two sides of the threshold; the supply is
\* constant over a behaviour
BattSamples == {LOWBATT_VAL, LOWBATT_VAL + 1}

WDT_TIMEDOUT == ~WDIE

\* battLevel(): the values one conversion can return
battLevel == {vbat}

\* power-on: get_mcusr() has disabled the watchdog, main() is at the warm-up
\* loop; the environment will change the button level n times, the supply
\* reads as one of samples
InitWith(n, samples) ==
  /\ now = 0 /\ timer = 0 /\ state = STATE_IDLE /\ lowBatt = BATT_DOCHECK
  /\ rollResult = 0 /\ nextRollChangeDelay = 0
  /\ btnPressState = BTN_NOTPRESSED /\ btnReleasedTime = 0
  /\ blinkCount = 0 /\ blinkState = 0
  /\ i = 0
  /\ rng = rngInit
  /\ pc = "L133"
  /\ PORTB = PB3
  /\ ADCH = 0
  /\ WDE = FALSE /\ WDIE = FALSE /\ WDIF = FALSE /\ PCIF = FALSE /\ IFlag = FALSE
  /\ btnRaw = FALSE
  /\ vbat \in samples
  /\ budget = n
  /\ edges = 0 /\ held = 0
  /\ btnPrev = BTN_NOTPRESSED /\ statePrev = STATE_IDLE
  /\ draws = 0
  /\ warnWrites = 0
  /\ sampled = 0
  /\ slept = FALSE
  /\ raisedWdt = FALSE /\ raisedPc = FALSE

Init == InitWith(MaxEdges, BattSamples)

\* ---- start-up -----------------------------------------------------------
\* for(uint8_t i=0;i<battLevel();i++) genRandom();   one test of the loop
WarmUp ==
  /\ pc = "L133"
  /\ \E s \in battLevel :
       /\ ADCH' = s
       /\ i < s
       /\ rng' = genRandom(rng)
       /\ i' = U8(i + 1)
  /\ UNCHANGED << locals, pc, PORTB, WDE, WDIE, WDIF, PCIF, IFlag, env, hist, slept, raised >>

\* the test fails: button interrupt, locals, wdt_enable, WDT_INT_RESET, sei
WarmUpDone ==
  /\ pc = "L133"
  /\ \E s \in battLevel :
       /\ ADCH' = s
       /\ ~(i < s)
  /\ WDE' = TRUE /\ WDIE' = TRUE /\ WDIF' = FALSE /\ PCIF' = FALSE
  /\ IFlag' = TRUE
  /\ pc' = "L161"
  /\ UNCHANGED << locals, i, rng, PORTB, env, hist, slept, raised >>

\* ---- the loop -----------------------------------------------------------
\* if(WDT_TIMEDOUT()) { WDT_INT_RESET(); now++; }
\* WDT_INT_RESET() is WDTCR |= WDIE|WDE: the read-modify-write also writes
\* back a set WDIF, which clears it
TickStep ==
  /\ pc = "L161"
  /\ IF WDT_TIMEDOUT
       THEN /\ WDIE' = TRUE /\ WDE' = TRUE /\ WDIF' = FALSE
            /\ now' = U8(now + 1)
            /\ slept' = FALSE
       ELSE UNCHANGED << WDIE, WDE, WDIF, now, slept >>
  /\ warnWrites' = (IF lowBatt = BATT_LOWWARN THEN warnWrites ELSE 0)
  /\ sampled' = 0
  /\ pc' = "L167"
  /\ UNCHANGED << timer, state, lowBatt, rollResult, nextRollChangeDelay,
                  btnPressState, btnReleasedTime, blinkCount, blinkState,
                  i, rng, PORTB, ADCH, PCIF, IFlag, env, btnPrev, statePrev, draws, raised >>

\* line 169: the sampled press is a press edge
FreshPressMutDebouncingToo(bps) == bps \in {BTN_NOTPRESSED, BTN_DEBOUNCING}
FreshPressMutNever(bps) == FALSE
FreshPress(bps) == bps = BTN_NOTPRESSED

\* line 176: the step index a sampled press leaves
PressDelayMutKeep(d) == IF d = 0 THEN 1 ELSE d
PressDelay(d) == 1

\* line 177: the Animator state a sampled press leaves
PressStateMutIdleOnly(st) == IF st = STATE_IDLE THEN STATE_ROLL ELSE st
PressState(st) == STATE_ROLL

\* line 187: the release has lasted the settle time
DebounceDoneMutShort(n, rel) == Sub8(n, rel) >= TMR_MS(50) - 1
DebounceDone(n, rel) == Sub8(n, rel) >= TMR_MS(50)

\* if(BTN_ISPRESSED()) { ... } else { ... }
ButtonStep ==
  /\ pc = "L167"
  /\ IF btnRaw
       THEN /\ IF FreshPress(btnPressState)
                 THEN timer' = now /\ blinkCount' = 0 /\ blinkState' = 0
                 ELSE UNCHANGED << timer, blinkCount, blinkState >>
            /\ btnPressState' = BTN_PRESSED
            /\ nextRollChangeDelay' = PressDelay(nextRollChangeDelay)
            /\ state' = PressState(state)
            /\ UNCHANGED btnReleasedTime
       ELSE /\ IF btnPressState = BTN_PRESSED
                 THEN btnReleasedTime' = now /\ btnPressState' = BTN_DEBOUNCING
                 ELSE IF DebounceDone(now, btnReleasedTime)
                        THEN btnPressState' = BTN_NOTPRESSED /\ UNCHANGED btnReleasedTime
                        ELSE UNCHANGED << btnPressState, btnReleasedTime >>
            /\ UNCHANGED << timer, blinkCount, blinkState, nextRollChangeDelay, state >>
  /\ btnPrev' = btnPressState /\ statePrev' = state
  /\ pc' = "L191"
  /\ UNCHANGED << now, lowBatt, rollResult, i, rng, hw, env, draws, warnWrites, sampled, slept, raised >>

\* line 191: the battery state asks for a sample
NeedsSampleMutLowToo(lb) == lb \in {BATT_DOCHECK, BATT_LOW}
NeedsSample(lb) == lb = BATT_DOCHECK

\* line 192: the classification of one sample
BattClassifyMutGeq(s) == IF s >= LOWBATT_VAL THEN BATT_LOWWARN ELSE BATT_OK
BattClassify(s) == IF s > LOWBATT_VAL THEN BATT_LOWWARN ELSE BATT_OK

\* if(lowBatt == BATT_DOCHECK) lowBatt = (battLevel() > LOWBATT_VAL) ? ... ;
BattStep ==
  /\ pc = "L191"
  /\ IF NeedsSample(lowBatt)
       THEN \E s \in battLevel :
              /\ ADCH' = s
              /\ lowBatt' = BattClassify(s)
              /\ warnWrites' = 0
              /\ sampled' = sampled + 1
       ELSE UNCHANGED << ADCH, lowBatt, warnWrites, sampled >>
  /\ pc' = "L194"
  /\ UNCHANGED << now, timer, state, rollResult, nextRollChangeDelay,
                  btnPressState, btnReleasedTime, blinkCount, blinkState,
                  i, rng, PORTB, WDE, WDIE, WDIF, PCIF, IFlag, env, btnPrev, statePrev,
                  draws, slept, raised >>

\* lines 194, 216, 238, 263: the branch of the if / else-if chain that runs
DisplayBranchMutRollFirst(lb, st) ==
  IF st = STATE_ROLL THEN "roll"
  ELSE IF lb = BATT_LOWWARN THEN "warn"
  ELSE IF st = STATE_ROLLDONE THEN "rolldone"
  ELSE IF st = STATE_STEADY THEN "steady"
  ELSE "none"
DisplayBranch(lb, st) ==
  IF lb = BATT_LOWWARN THEN "warn"
  ELSE IF st = STATE_ROLL THEN "roll"
  ELSE IF st = STATE_ROLLDONE THEN "rolldone"
  ELSE IF st = STATE_STEADY THEN "steady"
  ELSE "none"

\* line 207: the warning has blinked often enough
WarnBlinkDoneMutFewer(c) == c > 4
WarnBlinkDone(c) == c > 5

\* lines 194-215
WarnBranch ==
  IF Sub8(now, timer) >= TMR_MS(32)
    THEN /\ timer' = now
         /\ warnWrites' = warnWrites + 1
         /\ IF blinkState # 0       \* blinkState = !blinkState gives 0
              THEN /\ blinkState' = 0
                   /\ PORTB' \in diceSet(PORTB, 1)
                   /\ UNCHANGED << blinkCount, lowBatt >>
              ELSE /\ PORTB' \in diceSet(PORTB, 0)
                   /\ IF WarnBlinkDone(U8(blinkCount + 1))
                        THEN blinkCount' = 0 /\ blinkState' = 0 /\ lowBatt' = BATT_LOW
                        ELSE blinkCount' = U8(blinkCount + 1) /\ blinkState' = 1
                             /\ UNCHANGED lowBatt
         /\ UNCHANGED << state, rollResult, nextRollChangeDelay, rng, draws >>
    ELSE UNCHANGED << timer, warnWrites, blinkState, blinkCount, lowBatt, PORTB,
                      state, rollResult, nextRollChangeDelay, rng, draws >>

\* line 226: the face of a drawn byte
RollFaceMutNoOffset(r) == r % 6
RollFace(r) == (r % 6) + 1

\* lines 216-237
RollBranch ==
  \E d \in RollDelaysAt(nextRollChangeDelay) :
    IF Sub8(now, timer) >= d
      THEN /\ timer' = now
           /\ nextRollChangeDelay' = U8(nextRollChangeDelay + 1)
           /\ IF U8(nextRollChangeDelay + 1) >= ROLLDELAY_COUNT
                THEN /\ state' = STATE_ROLLDONE
                     /\ rng' = genRandom(rng)
                     /\ draws' = draws + 1
                     /\ rollResult' = RollFace(genRandom(rng).a)
                     /\ PORTB' \in diceSet(PORTB, RollFace(genRandom(rng).a))
                ELSE /\ rollResult' = (IF U8(rollResult + 1) > 6 THEN 1 ELSE U8(rollResult + 1))
                     /\ PORTB' \in diceSet(PORTB, IF U8(rollResult + 1) > 6 THEN 1 ELSE U8(rollResult + 1))
                     /\ UNCHANGED << state, rng, draws >>
           /\ UNCHANGED << warnWrites, blinkState, blinkCount, lowBatt >>
      ELSE UNCHANGED << timer, warnWrites, blinkState, blinkCount, lowBatt, PORTB,
                        state, rollResult, nextRollChangeDelay, rng, draws >>

\* line 254: the result has been shown often enough
SettleDoneMutMore(c) == c > 4
SettleDone(c) == c > 3

\* lines 238-262
RollDoneBranch ==
  IF blinkState = 0 \/ Sub8(now, timer) >= blinkState
    THEN /\ timer' = now
         /\ IF blinkState = TMR_MS(200)
              THEN /\ blinkState' = TMR_MS(50)
                   /\ PORTB' \in diceSet(PORTB, 0)
                   /\ UNCHANGED << blinkCount, state >>
              ELSE /\ PORTB' \in diceSet(PORTB, rollResult)
                   /\ IF SettleDone(U8(blinkCount + 1))
                        THEN blinkCount' = 0 /\ blinkState' = 0 /\ state' = STATE_STEADY
                        ELSE blinkCount' = U8(blinkCount + 1) /\ blinkState' = TMR_MS(200)
                             /\ UNCHANGED state
         /\ UNCHANGED << warnWrites, lowBatt, rollResult, nextRollChangeDelay, rng, draws >>
    ELSE UNCHANGED << timer, warnWrites, blinkState, blinkCount, lowBatt, PORTB,
                      state, rollResult, nextRollChangeDelay, rng, draws >>

\* line 267: the face written when the Steady hold ends, r being the result
SteadyEndFaceMutKeep(r) == r
SteadyEndFace(r) == 0

\* lines 263-270
SteadyBranch ==
  IF Sub8(now, timer) >= TMR_MS(2000)
    THEN /\ PORTB' \in diceSet(PORTB, SteadyEndFace(rollResult))
         /\ state' = STATE_IDLE
         /\ UNCHANGED << timer, warnWrites, blinkState, blinkCount, lowBatt,
                         rollResult, nextRollChangeDelay, rng, draws >>
    ELSE UNCHANGED << timer, warnWrites, blinkState, blinkCount, lowBatt, PORTB,
                      state, rollResult, nextRollChangeDelay, rng, draws >>

\* the if / else-if chain of lines 194-270
DisplayStep ==
  /\ pc = "L194"
  /\ LET b == DisplayBranch(lowBatt, state)
     IN CASE b = "warn" -> WarnBranch
          [] b = "roll" -> RollBranch
          [] b = "rolldone" -> RollDoneBranch
          [] b = "steady" -> SteadyBranch
          [] OTHER -> UNCHANGED << timer, warnWrites, blinkState, blinkCount, lowBatt,
                                   PORTB, state, rollResult, nextRollChangeDelay, rng, draws >>
  /\ pc' = "L273"
  /\ UNCHANGED << now, btnPressState, btnReleasedTime, i, ADCH, WDE, WDIE, WDIF,
                  PCIF, IFlag, env, btnPrev, statePrev, sampled, slept, raised >>

\* ---- sleep if nothing to do ---------------------------------------------
\* line 273: the I flag after cli()
CliFlagMutNoCli == TRUE
CliFlag == FALSE

\* lines 273-274, and 288 when a tick is pending: cli(); if(!WDT_TIMEDOUT()) ...
\* else sei();
Check ==
  /\ pc = "L273"
  /\ raisedWdt' = FALSE /\ raisedPc' = FALSE
  /\ IF WDT_TIMEDOUT
       THEN pc' = "L161" /\ IFlag' = TRUE
       ELSE pc' = "L276" /\ IFlag' = CliFlag
  /\ UNCHANGED << locals, i, rng, PORTB, ADCH, WDE, WDIE, WDIF, PCIF, env, hist, slept >>

\* line 276: nothing is left to do but wait for the button
CanDeepSleepMutSteadyToo(raw, bps, st, lb) ==
  ~raw /\ bps = BTN_NOTPRESSED /\ st \in {STATE_IDLE, STATE_STEADY} /\ lb # BATT_LOWWARN
CanDeepSleepMutNoState(raw, bps, st, lb) ==
  ~raw /\ bps = BTN_NOTPRESSED /\ lb # BATT_LOWWARN
CanDeepSleep(raw, bps, st, lb) ==
  ~raw /\ bps = BTN_NOTPRESSED /\ st = STATE_IDLE /\ lb # BATT_LOWWARN

\* lines 276-284: wdt_disable(); lowBatt = BATT_DOCHECK; when idle, then
\* sleep_enable(); sei();  the next instruction runs before any pending interrupt
SleepDecide ==
  /\ pc = "L276"
  /\ IF CanDeepSleep(btnRaw, btnPressState, state, lowBatt)
       THEN WDE' = FALSE /\ WDIE' = FALSE /\ lowBatt' = BATT_DOCHECK
       ELSE UNCHANGED << WDE, WDIE, lowBatt >>
  /\ IFlag' = TRUE
  /\ pc' = "L285"
  /\ UNCHANGED << now, timer, state, rollResult, nextRollChangeDelay,
                  btnPressState, btnReleasedTime, blinkCount, blinkState,
                  i, rng, PORTB, ADCH, WDIF, PCIF, env, hist, slept, raised >>

\* line 285: sleep_cpu();
SleepCpu ==
  /\ pc = "L285"
  /\ pc' = "asleep"
  /\ slept' = TRUE
  /\ UNCHANGED << locals, i, rng, hw, env, hist, raised >>

\* an interrupt that is raised and enabled
WdtIrq == WDIF /\ WDIE
PcIrq == PCIF

\* a pending interrupt wakes the processor; the empty handlers run (that of the
\* watchdog clears WDIE with WDIF), then sleep_disable(); sei(); and the loop
\* starts over
Wake ==
  /\ pc = "asleep"
  /\ IFlag /\ (WdtIrq \/ PcIrq)
  /\ WDIE' = (WDIE /\ ~WdtIrq)
  /\ WDIF' = (WDIF /\ ~WdtIrq)
  /\ PCIF' = FALSE
  /\ pc' = "L161"
  /\ UNCHANGED << locals, i, rng, PORTB, ADCH, WDE, IFlag, env, hist, slept, raised >>

\* ---- hardware events ----------------------------------------------------
\* an interrupt raised now is served at once (empty handler)
Served == IFlag /\ pc \notin {"L285", "asleep"}

\* the pending-tick check of this iteration has been made
AfterCheck == pc \in {"L276", "L285", "asleep"}

\* EMPTY_INTERRUPT(WDT_vect): a watchdog time-out, 16 ms after the last one
WdtTimeout ==
  /\ WDE /\ WDIE /\ ~WDIF /\ slept
  /\ ~(btnRaw /\ edges > 1 /\ held >= MaxHold)   \* a later press is followed for MaxHold ticks
  /\ WDIE' = ~Served
  /\ WDIF' = ~Served
  /\ slept' = FALSE
  /\ raisedWdt' = (raisedWdt \/ AfterCheck)
  /\ held' = (IF btnRaw /\ held < MaxHold THEN held + 1 ELSE held)
  /\ UNCHANGED << locals, i, rng, pc, PORTB, ADCH, WDE, PCIF, IFlag, btnRaw, vbat,
                  budget, edges, hist, raisedPc >>

\* EMPTY_INTERRUPT(PCINT0_vect): the raw level of the button changes
BtnChange ==
  /\ edges < budget
  /\ pc = "L133" => i = 0      \* no one reads the button during the warm-up
  /\ btnRaw => held < MaxHold
  /\ btnRaw' = ~btnRaw
  /\ edges' = edges + 1
  /\ held' = 0
  /\ PCIF' = (pc # "L133" /\ (PCIF \/ ~Served))
  /\ raisedPc' = (raisedPc \/ AfterCheck)
  /\ UNCHANGED << locals, i, rng, pc, PORTB, ADCH, WDE, WDIE, WDIF, IFlag, vbat,
                  budget, hist, slept, raisedWdt >>

\* ---- specification ------------------------------------------------------
Cpu ==
  \/ WarmUp \/ WarmUpDone
  \/ TickStep \/ ButtonStep \/ BattStep \/ DisplayStep
  \/ Check \/ SleepDecide \/ SleepCpu \/ Wake

Next ==
  \/ WarmUp \/ WarmUpDone
  \/ TickStep \/ ButtonStep \/ BattStep \/ DisplayStep
  \/ Check \/ SleepDecide \/ SleepCpu \/ Wake
  \/ WdtTimeout \/ BtnChange

Spec == Init /\ [][Next]_vars

\* the processor executes while it is awake, and the watchdog keeps timing out
\* while it runs
Fairness == WF_vars(Cpu) /\ WF_vars(WdtTimeout)

FairSpec == Spec /\ Fairness

\* one press, never released
HoldSpec == InitWith(1, BattSamples) /\ [][Next]_vars /\ Fairness

\* one press and one release
TapSpec == InitWith(2, BattSamples) /\ [][Next]_vars /\ Fairness

\* power-on up to the first battery classification, for every 8-bit reading of
\* the supply, the button untouched
Boot == WarmUp \/ WarmUpDone \/ TickStep \/ ButtonStep \/ BattStep

BootSpec == InitWith(0, 0..255) /\ [][Boot]_vars

\* one more call of genRandom(), counted in i
GenCall ==
  /\ pc = "L133"
  /\ i < MaxCalls
  /\ rng' = genRandom(rng)
  /\ i' = i + 1
  /\ UNCHANGED << locals, pc, hw, env, hist, slept, raised >>

\* the generator alone: the seed state and what MaxCalls calls make of it
GenSpec == InitWith(0, {LOWBATT_VAL}) /\ [][GenCall]_vars

\* ---- claims -------------------------------------------------------------
\* the Animator moves one state forward along Rolling, RollSettling, Steady, Idle
AnimatorForward ==
  <<state, state'>> \in {<<STATE_ROLL, STATE_ROLLDONE>>, <<STATE_ROLLDONE, STATE_STEADY>>,
                         <<STATE_STEADY, STATE_IDLE>>}

\* C1: once the one press of a behaviour has been released (at any time, also
\* inside the debounce window), the Animator only moves forward along Rolling,
\* RollSettling, Steady, Idle and, if the press was sampled, reaches Idle after
\* one draw; it draws at most once, and throughout Steady the face displayed
\* is the value (genRandom() mod 6) + 1 last drawn.
C1_ReleaseIgnored ==
  /\ [][edges = 2 => (state' = state \/ AnimatorForward)]_vars
  /\ [](draws <= 1)
  /\ [](state = STATE_STEADY =>
          draws = 1 /\ rollResult = (rng.a % 6) + 1 /\ FaceOf(PORTB) = rollResult)
  /\ (edges = 2 /\ state = STATE_ROLL) ~> (edges = 2 /\ state = STATE_IDLE /\ draws = 1)

\* C1 witness: the press was released 2 ticks after it was sampled; the roll
\* has run through Steady (which began 90 ticks after the release) and the
\* device is in deep sleep, Idle, after exactly one draw
C1_Witness ==
  /\ edges = 2 /\ pc = "asleep" /\ ~WDE
  /\ state = STATE_IDLE /\ draws = 1
  /\ rollResult = (rng.a % 6) + 1
  /\ Sub8(timer, btnReleasedTime) = 90
  /\ lowBatt = BATT_DOCHECK /\ ADCH <= LOWBATT_VAL

\* C2 (as stated): with the button untouched, the warning ends (battery state
\* Low) after exactly 6 display writes.
C2_SixToggles ==
  (edges = 0 /\ pc = "L273" /\ lowBatt = BATT_LOW) => warnWrites = 6

\* C2 (amended): with the button untouched, the warning makes one display
\* write every 2 ticks, alternately blank and the warn pattern (face 1),
\* beginning with blank, and becomes Low with the 11th write (6 blank, 5 warn
\* pattern), 22 ticks after power-on.
C2_ElevenWrites ==
  (edges = 0 /\ pc = "L273" /\ lowBatt \in {BATT_LOWWARN, BATT_LOW}) =>
     /\ warnWrites = now \div 2
     /\ (lowBatt = BATT_LOW) <=> (warnWrites = 11)
     /\ FaceOf(PORTB) = (IF warnWrites > 0 /\ warnWrites % 2 = 0 THEN 1 ELSE 0)

\* C2 witness: the untouched warning has just ended
C2_Witness ==
  edges = 0 /\ pc = "L273" /\ lowBatt = BATT_LOW /\ warnWrites = 11 /\ now = 22

\* the one press of the behaviour has been sampled and is not released
Held == edges = 1 /\ btnRaw /\ btnPressState = BTN_PRESSED

\* C3 (as stated): with the button pressed and never released, battery Ok, the
\* roll settles: the Animator leaves Rolling with a final value in 1..6.
C3_HeldRollSettles ==
  (Held /\ lowBatt = BATT_OK) ~> (state = STATE_ROLLDONE /\ rollResult \in 1..6)

\* C3 (amended): while the press is held the Animator stays in Rolling with
\* step index 1 or 2 and never draws; the face counts up by one, cyclically,
\* exactly every 3 ticks, and is what the display shows outside the warning.
C3_HeldKeepsRolling ==
  /\ [](Held => /\ state = STATE_ROLL
                /\ draws = 0
                /\ nextRollChangeDelay \in 1..2
                /\ rollResult \in 0..6
                /\ (lowBatt # BATT_LOWWARN /\ pc # "L194" => FaceOf(PORTB) = rollResult))
  /\ [][Held /\ rollResult' # rollResult =>
          rollResult' = (rollResult % 6) + 1 /\ Sub8(now, timer) = 3 /\ timer' = now]_vars

\* C3 witness: 199 ticks after the press the Animator is still Rolling and has
\* not drawn
C3_Witness ==
  Held /\ lowBatt = BATT_OK /\ now = 200 /\ state = STATE_ROLL /\ draws = 0 /\ rollResult = 6

\* after the button step of the iteration
PastButtonStep == pc \in {"L191", "L194", "L273", "L276", "L285", "asleep"}

\* C4: the debounced state changes only in the button step and only along
\* NotPressed -> Pressed, Pressed -> Debouncing (recording the release time),
\* Debouncing -> Pressed and Debouncing -> NotPressed; a pressed sample always
\* leaves Pressed, so Debouncing lasts only while every sample is released; the
\* step into NotPressed is taken from Debouncing only, on a released sample,
\* exactly TMR_MS(50) = 3 ticks after the recorded release, and Debouncing
\* never outlasts that.
C4_DebounceSettle ==
  /\ [][btnPressState' # btnPressState =>
          /\ pc = "L167"
          /\ \/ btnPressState = BTN_NOTPRESSED /\ btnPressState' = BTN_PRESSED /\ btnRaw
             \/ /\ btnPressState = BTN_PRESSED /\ btnPressState' = BTN_DEBOUNCING
                /\ ~btnRaw /\ btnReleasedTime' = now
             \/ btnPressState = BTN_DEBOUNCING /\ btnPressState' = BTN_PRESSED /\ btnRaw
             \/ /\ btnPressState = BTN_DEBOUNCING /\ btnPressState' = BTN_NOTPRESSED
                /\ ~btnRaw /\ Sub8(now, btnReleasedTime) = 3 /\ TMR_MS(50) = 3]_vars
  /\ [][pc = "L167" /\ pc' = "L191" /\ btnRaw => btnPressState' = BTN_PRESSED]_vars
  /\ [](btnPressState = BTN_DEBOUNCING =>
          /\ Sub8(now, btnReleasedTime) <= 3
          /\ PastButtonStep => Sub8(now, btnReleasedTime) < 3)

\* C4 witness: a re-press sampled 2 ticks after the recorded release has gone
\* from Debouncing straight to Pressed
C4_Witness ==
  /\ pc = "L191" /\ edges = 3 /\ btnRaw
  /\ btnPrev = BTN_DEBOUNCING /\ btnPressState = BTN_PRESSED
  /\ Sub8(now, btnReleasedTime) = 2

\* C5: the button step of an iteration that samples the raw button pressed
\* leaves the Animator in Rolling with step index 1, whatever its state was.
C5_PressForcesRoll ==
  [][pc = "L167" /\ pc' = "L191" /\ btnRaw =>
       state' = STATE_ROLL /\ nextRollChangeDelay' = 1]_vars

\* C5 witness: a press sampled while the Animator was in Steady has put it
\* back to Rolling, step index 1
C5_Witness ==
  /\ pc = "L191" /\ btnRaw /\ statePrev = STATE_STEADY
  /\ state = STATE_ROLL /\ nextRollChangeDelay = 1 /\ draws = 1

\* C6: a display step taken with the battery state WarnBlinking leaves the
\* Animator's state, step index, rollResult and the generator alone, draws
\* nothing, and writes the display, if at all, with face 1 or blank.
C6_WarnOnly ==
  [][pc = "L194" /\ pc' = "L273" /\ lowBatt = BATT_LOWWARN =>
       /\ UNCHANGED << state, nextRollChangeDelay, rollResult, rng, draws >>
       /\ PORTB' # PORTB => warnWrites' = warnWrites + 1
       /\ warnWrites' # warnWrites => FaceOf(PORTB') \in {0, 1}]_vars

\* C6 witness: the warning has written the warn pattern while the Animator,
\* in Rolling since a press, was due to step (the first delay is 3 ticks)
C6_Witness ==
  /\ pc = "L273" /\ lowBatt = BATT_LOWWARN /\ state = STATE_ROLL
  /\ btnPressState = BTN_PRESSED /\ nextRollChangeDelay = 1 /\ draws = 0
  /\ warnWrites >= 4 /\ timer = now /\ FaceOf(PORTB) = 1

\* on its way to sleep_cpu(), or asleep
Suspending == pc \in {"L285", "asleep"}

\* C7 (as stated): the processor never stays suspended while an interrupt
\* raised after the pending-tick check is outstanding: with a time-out or a
\* pin change since the check, a suspended processor has a wake-up pending.
C7_NoLostWakeup ==
  (pc = "asleep" /\ (raisedWdt \/ raisedPc)) => (IFlag /\ (WdtIrq \/ PcIrq))

\* C7 (amended): the check is made and acted on with interrupts disabled, and
\* they are enabled again by the sei() before sleep_cpu(); a pin change after
\* the check is pending, and wakes the processor, whenever it suspends; so is
\* a time-out after the check in an iteration that leaves the watchdog
\* running; in an iteration that disables the watchdog, a time-out that came
\* between the check and wdt_disable() is left masked (WDIE clear) and does
\* not wake the processor; an iteration whose check finds a tick pending goes
\* back to the top of the loop without suspending.
C7_WakeupKept ==
  /\ [](pc = "L276" => ~IFlag /\ WDIE)
  /\ [](Suspending => IFlag)
  /\ [](Suspending /\ raisedPc => PcIrq)
  /\ [](Suspending /\ raisedWdt /\ WDE => WdtIrq)
  /\ [](Suspending /\ raisedWdt /\ ~WDE => ~WdtIrq)
  /\ [](pc = "asleep" /\ (raisedPc \/ (raisedWdt /\ WDE)) => ENABLED Wake)
  /\ [][pc = "L273" /\ WDT_TIMEDOUT /\ pc' # pc => pc' = "L161"]_vars

\* C7 witness: a time-out has come between the check and sleep_cpu() in an
\* iteration that leaves the watchdog running; it is pending when the
\* processor suspends
C7_Witness ==
  pc = "L285" /\ raisedWdt /\ ~raisedPc /\ WDE /\ WdtIrq /\ IFlag

\* C8: the watchdog is disabled only by the sleep decision of an iteration
\* that found no tick pending and finds the raw button released, the debouncer
\* NotPressed, the Animator Idle and the battery state not WarnBlinking, and
\* the battery state is NeedsCheck from then on while suspended; every other
\* sleep decision leaves the watchdog running with its interrupt armed.
C8_DeepSleepOnlyIdle ==
  /\ [][WDE /\ ~WDE' =>
          /\ pc = "L276" /\ pc' = "L285"
          /\ WDIE
          /\ ~btnRaw /\ btnPressState = BTN_NOTPRESSED /\ state = STATE_IDLE
          /\ lowBatt # BATT_LOWWARN
          /\ lowBatt' = BATT_DOCHECK]_vars
  /\ [][pc = "L276" /\ pc' = "L285" /\
        ~(~btnRaw /\ btnPressState = BTN_NOTPRESSED /\ state = STATE_IDLE
            /\ lowBatt # BATT_LOWWARN) =>
          WDE' /\ WDIE' /\ lowBatt' = lowBatt]_vars
  /\ [](pc = "L276" => WDE)
  /\ [](Suspending /\ ~WDE =>
          btnPressState = BTN_NOTPRESSED /\ state = STATE_IDLE /\ lowBatt = BATT_DOCHECK)

\* C8 witness: after a roll has run its course the processor is suspended with
\* the watchdog disabled and a battery check requested
C8_Witness ==
  /\ pc = "asleep" /\ ~WDE /\ ~WDIE /\ draws = 1 /\ edges = 2
  /\ state = STATE_IDLE /\ btnPressState = BTN_NOTPRESSED /\ lowBatt = BATT_DOCHECK
  /\ FaceOf(PORTB) = 0

\* genRandom(): the states x, 0, 0, 0 from which one call reaches the all-zero
\* state (a call shifts y, z, a into x, y, z, so no other state can)
ZeroPredecessors ==
  {x \in 0..255 : genRandom([x |-> x, y |-> 0, z |-> 0, a |-> 0]).a = 0}

\* C9: no state reached from the seed state by calls of genRandom() has all
\* four words zero; and one call reaches the all-zero state from the all-zero
\* state only, so that no number of calls reaches it.
C9_NeverZero ==
  /\ ~(rng.x = 0 /\ rng.y = 0 /\ rng.z = 0 /\ rng.a = 0)
  /\ ZeroPredecessors = {0}

\* C9 witness: MaxCalls calls have been made from the seed state
C9_Witness ==
  i = MaxCalls /\ rng # rngInit /\ (rng.x # 0 \/ rng.y # 0 \/ rng.z # 0 \/ rng.a # 0)

\* C10: the threshold is 1100 div (2400 div 255) = 1100 div 9 = 122, and a
\* battery step that finds NeedsCheck leaves WarnBlinking exactly when the
\* sample is above 122 and Ok exactly when it is 122 or less.
C10_Threshold ==
  /\ [](VLOWBATT \div 255 = 9 /\ LOWBATT_VAL = 122)
  /\ [][pc = "L191" /\ pc' = "L194" /\ lowBatt = BATT_DOCHECK =>
          /\ ADCH' \in 0..255
          /\ (lowBatt' = BATT_LOWWARN) <=> (ADCH' > 122)
          /\ (lowBatt' = BATT_OK) <=> (ADCH' <= 122)]_vars

\* C10 witness: the sample one above the threshold has been classified
\* WarnBlinking
C10_Witness ==
  pc = "L194" /\ ADCH = 123 /\ vbat = 123 /\ lowBatt = BATT_LOWWARN /\ now = 0

\* ---- timed waits ----------------------------------------------------------
\* the thresholds the loop compares (uint8_t)(now - ref) with: lines 187, 196,
\* 218 (rollDelays[1..4]), 240 (blinkState), 265
WaitThresholds ==
  {TMR_MS(50), TMR_MS(32), TMR_MS(200), TMR_MS(2000)} \cup {rollDelays[k] : k \in 2..5}

\* a wait begins with the tick counter at any value: ref (held in timer) is
\* the counter at that moment, i counts the ticks since
WaitInit ==
  /\ now \in 0..255 /\ timer = now /\ i = 0
  /\ state = STATE_IDLE /\ lowBatt = BATT_DOCHECK
  /\ rollResult = 0 /\ nextRollChangeDelay = 0
  /\ btnPressState = BTN_NOTPRESSED /\ btnReleasedTime = 0
  /\ blinkCount = 0 /\ blinkState = 0
  /\ rng = rngInit /\ pc = "L161" /\ PORTB = PB3 /\ ADCH = 0
  /\ WDE = TRUE /\ WDIE = FALSE /\ WDIF = FALSE /\ PCIF = FALSE /\ IFlag = TRUE
  /\ btnRaw = FALSE /\ vbat = LOWBATT_VAL /\ budget = 0 /\ edges = 0 /\ held = 0
  /\ btnPrev = BTN_NOTPRESSED /\ statePrev = STATE_IDLE
  /\ draws = 0 /\ warnWrites = 0 /\ sampled = 0 /\ slept = FALSE
  /\ raisedWdt = FALSE /\ raisedPc = FALSE

\* line 164: now++, one more tick of the wait (fewer than 256 in all)
WaitTick ==
  /\ i < 255
  /\ now' = U8(now + 1)
  /\ i' = i + 1
  /\ UNCHANGED << timer, state, lowBatt, rollResult, nextRollChangeDelay,
                  btnPressState, btnReleasedTime, blinkCount, blinkState,
                  rng, pc, hw, env, hist, slept, raised >>

WaitSpec == WaitInit /\ [][WaitTick]_vars

\* C11: the thresholds are 3, 2, 3/6/12/25, 12 and 125 ticks, and whatever the
\* tick counter was when a wait began, wrapped or not, the 8-bit difference
\* (now - ref) is the number of ticks since, so that each comparison with a
\* threshold holds exactly when that many ticks have passed.
C11_WrapSafe ==
  /\ TMR_MS(50) = 3 /\ TMR_MS(32) = 2 /\ TMR_MS(200) = 12 /\ TMR_MS(2000) = 125
  /\ rollDelays = << 0, 3, 6, 12, 25 >>
  /\ Sub8(now, timer) = i
  /\ \A th \in WaitThresholds : (Sub8(now, timer) >= th) <=> (i >= th)

\* C11 witness: the counter has wrapped from 255 to 0 during the wait and the
\* Steady hold of 125 ticks has just elapsed
C11_Witness ==
  i = TMR_MS(2000) /\ now < timer /\ Sub8(now, timer) >= TMR_MS(2000)

\* C12: rollResult is always in 0..6, and in 1..6 while the Animator is in
\* RollSettling or Steady; the step index is in 0..5, and in 1..4 whenever the
\* Rolling branch is about to read rollDelays with it; the LED lines always
\* hold an entry of portVals (no lookup has read past the end of a table).
C12_LookupsInRange ==
  /\ rollResult \in 0..6
  /\ state \in {STATE_ROLLDONE, STATE_STEADY} => rollResult \in 1..6
  /\ nextRollChangeDelay \in 0..ROLLDELAY_COUNT
  /\ state = STATE_ROLL => nextRollChangeDelay \in 1..(ROLLDELAY_COUNT - 1)
  /\ PORTB \in {PB3 + portVals[k] : k \in 1..Len(portVals)}

\* C12 witness: the Rolling branch is about to read the last entry of
\* rollDelays and will advance the step index to ROLLDELAY_COUNT
C12_Witness ==
  /\ pc = "L194" /\ state = STATE_ROLL /\ lowBatt # BATT_LOWWARN
  /\ nextRollChangeDelay = ROLLDELAY_COUNT - 1 /\ rollResult \in 1..6
  /\ Sub8(now, timer) >= rollDelays[ROLLDELAY_COUNT]

\* C13 (as stated): whatever the button does, a warning ends (battery state
\* Low) after the fixed number of display writes, the 11 of an untouched
\* warning.
C13_FixedToggles ==
  (pc = "L273" /\ lowBatt = BATT_LOW /\ warnWrites > 0) => warnWrites = 11

\* C14: an iteration of the loop calls battLevel() at most once, and only in
\* the battery step when it finds NeedsCheck, which that step always does and
\* which leaves WarnBlinking or Ok; between the battery step and the sleep
\* decision the state is never NeedsCheck; after start-up NeedsCheck is set
\* only by the sleep decision that disables the watchdog; Ok and Low change
\* in no other way, and WarnBlinking only to Low, in the display step.
C14_SampleOnlyOnCheck ==
  /\ [](sampled \in 0..1)
  /\ [][sampled' > sampled =>
          pc = "L191" /\ lowBatt = BATT_DOCHECK /\ lowBatt' \in {BATT_OK, BATT_LOWWARN}]_vars
  /\ [][pc = "L191" /\ pc' = "L194" /\ lowBatt = BATT_DOCHECK => sampled' = 1]_vars
  /\ [](pc \in {"L194", "L273", "L276"} => lowBatt # BATT_DOCHECK)
  /\ [][lowBatt # BATT_DOCHECK /\ lowBatt' = BATT_DOCHECK =>
          ~WDE' /\ WDE /\ pc = "L276"]_vars
  /\ [][lowBatt' # lowBatt /\ lowBatt \in {BATT_OK, BATT_LOW} =>
          lowBatt' = BATT_DOCHECK /\ ~WDE' /\ pc = "L276"]_vars
  /\ [][lowBatt = BATT_LOWWARN /\ lowBatt' # lowBatt =>
          lowBatt' = BATT_LOW /\ pc = "L194"]_vars

\* C14 witness: the warning has ended during a roll; the battery state is
\* still Low, unsampled, when the roll has reached Steady
C14_Witness ==
  /\ pc = "L273" /\ lowBatt = BATT_LOW /\ state = STATE_STEADY
  /\ sampled = 0 /\ draws = 1 /\ ADCH > LOWBATT_VAL

\* the display step of an iteration that finds RollSettling writes the display
SettleWrite ==
  /\ pc = "L194" /\ state = STATE_ROLLDONE /\ pc' = "L273"
  /\ << timer, blinkState, blinkCount, state >>' # << timer, blinkState, blinkCount, state >>

\* C15 (as stated): the step from RollSettling to Steady is taken when 4 show
\* phases have completed: 4 shows have been begun (blinkCount) and the last of
\* them has ended.
C15_FourShowsCompleted ==
  [][state = STATE_ROLLDONE /\ state' = STATE_STEADY => blinkCount = 4]_vars

\* C15 (amended): RollSettling never coincides with the warning; it shows the
\* result during a show phase (and on entry) and blank during a blank phase;
\* the first show begins in the first iteration after the draw, a show phase
\* ends exactly 12 ticks after it began, a blank phase exactly 3 ticks after;
\* the step to Steady is taken at the end of the 3rd blank phase, when 3 show
\* phases have completed and the 4th would begin, and writes the result.
C15_SettleBlink ==
  /\ [](state = STATE_ROLLDONE =>
          /\ lowBatt # BATT_LOWWARN
          /\ blinkCount \in 0..3
          /\ blinkState \in {0, TMR_MS(50), TMR_MS(200)}
          /\ blinkState = 0 => blinkCount = 0
          /\ FaceOf(PORTB) = (IF blinkState = TMR_MS(50) THEN 0 ELSE rollResult))
  /\ [][SettleWrite => timer' = now]_vars
  /\ [][SettleWrite =>
          \/ /\ blinkState = 0
             /\ blinkState' = TMR_MS(200) /\ blinkCount' = 1 /\ state' = STATE_ROLLDONE
          \/ /\ blinkState = TMR_MS(200) /\ Sub8(now, timer) = 12
             /\ blinkState' = TMR_MS(50) /\ blinkCount' = blinkCount
             /\ state' = STATE_ROLLDONE
          \/ /\ blinkState = TMR_MS(50) /\ Sub8(now, timer) = 3 /\ blinkCount < 3
             /\ blinkState' = TMR_MS(200) /\ blinkCount' = blinkCount + 1
             /\ state' = STATE_ROLLDONE
          \/ /\ blinkState = TMR_MS(50) /\ Sub8(now, timer) = 3 /\ blinkCount = 3
             /\ state' = STATE_STEADY /\ FaceOf(PORTB') = rollResult]_vars
  /\ [][state = STATE_ROLLDONE /\ state' = STATE_STEADY =>
          SettleWrite /\ blinkCount = 3 /\ blinkState = TMR_MS(50)]_vars
  /\ [][pc = "L194" /\ state = STATE_ROLLDONE /\ pc' = "L273" /\ ~SettleWrite =>
          /\ UNCHANGED << state, blinkState, blinkCount, PORTB >>
          /\ blinkState # 0 /\ Sub8(now, timer) < blinkState]_vars

\* C15 witness: Steady has just been entered with the result displayed, 46
\* ticks (3 shows of 12 and 3 blanks of 3, one tick after the draw) after the
\* draw made 46 ticks (3 + 6 + 12 + 25) after the press was sampled at tick 1
C15_Witness ==
  /\ pc = "L273" /\ state = STATE_STEADY /\ timer = now /\ now = 93
  /\ draws = 1 /\ edges = 2 /\ blinkCount = 0 /\ blinkState = 0
  /\ FaceOf(PORTB) = rollResult /\ rollResult \in 1..6

\* C16 (as stated): at the end of every loop iteration that leaves the
\* Animator Idle the display is blank.
C16_IdleBlank ==
  (pc = "L273" /\ state = STATE_IDLE) => FaceOf(PORTB) = 0

\* C16 (amended): whenever the Animator is Idle and the battery state is not
\* WarnBlinking, the LED lines are all off (PORTB holds the pull-up bit only);
\* while it is Idle during a warning they are off or show the warn pattern,
\* face 1.
C16_IdleBlankUnlessWarn ==
  /\ (state = STATE_IDLE /\ lowBatt # BATT_LOWWARN) => PORTB = PB3
  /\ (state = STATE_IDLE /\ lowBatt = BATT_LOWWARN) => PORTB \in {PB3, PB3 + portVals[2]}

\* C16 witness: a roll started during a warning has run its course after the
\* warning ended, and the Animator is back in Idle with the display blank
C16_Witness ==
  /\ pc = "L273" /\ state = STATE_IDLE /\ lowBatt = BATT_LOW /\ draws = 1
  /\ Sub8(now, timer) = TMR_MS(2000) /\ FaceOf(PORTB) = 0

\* the display step of an iteration that finds Rolling and no warning
RollStep == pc = "L194" /\ pc' = "L273" /\ state = STATE_ROLL /\ lowBatt # BATT_LOWWARN

\* C17: the delays are 3, 6, 12, 25 ticks for step index 1..4; a display step
\* in Rolling advances exactly when (now - timer) has reached the delay of the
\* step index; an advance to an index below 5 shows the next face (6 is
\* followed by 1), draws nothing and stays in Rolling; the advance to index 5
\* makes one call of genRandom(), shows (value mod 6) + 1 and enters
\* RollSettling; genRandom() is called by no other step, and RollSettling is
\* entered by no other step.
C17_RollAdvance ==
  /\ [](<< rollDelays[2], rollDelays[3], rollDelays[4], rollDelays[5] >> = << 3, 6, 12, 25 >>)
  /\ [][RollStep /\ Sub8(now, timer) >= rollDelays[nextRollChangeDelay + 1] =>
          /\ timer' = now
          /\ nextRollChangeDelay' = nextRollChangeDelay + 1
          /\ FaceOf(PORTB') = rollResult'
          /\ IF nextRollChangeDelay + 1 < 5
               THEN /\ rollResult' = (rollResult % 6) + 1
                    /\ UNCHANGED << rng, draws, state >>
               ELSE /\ rng' = genRandom(rng) /\ draws' = draws + 1
                    /\ rollResult' = (rng'.a % 6) + 1
                    /\ state' = STATE_ROLLDONE]_vars
  /\ [][RollStep /\ Sub8(now, timer) < rollDelays[nextRollChangeDelay + 1] =>
          UNCHANGED << timer, nextRollChangeDelay, rollResult, PORTB, rng, draws, state >>]_vars
  /\ [][draws' # draws \/ (state # STATE_ROLLDONE /\ state' = STATE_ROLLDONE) =>
          /\ RollStep /\ nextRollChangeDelay = 4
          /\ draws' = draws + 1 /\ state' = STATE_ROLLDONE]_vars

\* C17 witness: the advance to step index 5 has just been made, 25 ticks after
\* the advance to index 4: one draw, its face displayed, RollSettling entered
C17_Witness ==
  /\ pc = "L273" /\ state = STATE_ROLLDONE /\ nextRollChangeDelay = 5
  /\ timer = now /\ blinkState = 0 /\ draws = 1
  /\ rollResult = (rng.a % 6) + 1 /\ FaceOf(PORTB) = rollResult

\* a button step that samples the raw button pressed
PressSampled == pc = "L167" /\ pc' = "L191" /\ btnRaw

\* C18 (as stated): after a button step that sampled a press with the
\* debouncer in Debouncing, the debouncer is Pressed, timer is the current
\* tick and blinkCount and blinkState are zero, as after a press edge from
\* NotPressed.
C18_RepressIsFreshEdge ==
  (pc = "L191" /\ btnRaw /\ btnPrev = BTN_DEBOUNCING /\ btnPressState = BTN_PRESSED) =>
     (timer = now /\ blinkCount = 0 /\ blinkState = 0)

\* C18 (amended): a press sampled in Debouncing takes the debouncer to Pressed
\* and the Animator to Rolling with step index 1, and leaves timer, blinkCount,
\* blinkState and the recorded release time as they were; only a press
\* sampled in NotPressed sets timer to the current tick and clears blinkCount
\* and blinkState.
C18_RepressKeepsCounters ==
  /\ [][PressSampled /\ btnPressState = BTN_DEBOUNCING =>
          /\ btnPressState' = BTN_PRESSED
          /\ state' = STATE_ROLL /\ nextRollChangeDelay' = 1
          /\ UNCHANGED << timer, blinkCount, blinkState, btnReleasedTime >>]_vars
  /\ [][PressSampled /\ btnPressState = BTN_NOTPRESSED =>
          /\ btnPressState' = BTN_PRESSED
          /\ state' = STATE_ROLL /\ nextRollChangeDelay' = 1
          /\ timer' = now /\ blinkCount' = 0 /\ blinkState' = 0]_vars

\* C18 witness: a re-press 2 ticks after the release has been sampled in
\* Debouncing during a warning; timer and the blink count are those of the
\* warning write made in between
C18_Witness ==
  /\ pc = "L191" /\ btnRaw /\ btnPrev = BTN_DEBOUNCING /\ btnPressState = BTN_PRESSED
  /\ lowBatt = BATT_LOWWARN /\ timer # now /\ blinkCount > 0 /\ blinkState # 0

\* the statements of this iteration are done: sleep check, suspend
EndOfIteration == pc \in {"L273", "L276", "L285", "asleep"}

\* C19: at the end of an iteration that leaves the battery state other than
\* WarnBlinking and the Animator other than RollSettling, blinkCount and
\* blinkState are zero; both are zero when the battery state becomes
\* WarnBlinking and when the Animator enters RollSettling.
C19_CountersNotCarried ==
  /\ [](EndOfIteration /\ lowBatt # BATT_LOWWARN /\ state # STATE_ROLLDONE =>
          blinkCount = 0 /\ blinkState = 0)
  /\ [][lowBatt # BATT_LOWWARN /\ lowBatt' = BATT_LOWWARN =>
          blinkCount = 0 /\ blinkState = 0 /\ blinkCount' = 0 /\ blinkState' = 0]_vars
  /\ [][state # STATE_ROLLDONE /\ state' = STATE_ROLLDONE =>
          blinkCount = 0 /\ blinkState = 0 /\ blinkCount' = 0 /\ blinkState' = 0]_vars

\* C19 witness: RollSettling begins, with both counters zero, for a roll that
\* was started during a warning which has counted with them and ended
C19_Witness ==
  /\ pc = "L273" /\ state = STATE_ROLLDONE /\ nextRollChangeDelay = 5 /\ timer = now
  /\ lowBatt = BATT_LOW /\ ADCH > LOWBATT_VAL /\ draws = 1
  /\ blinkCount = 0 /\ blinkState = 0

\* lines 276-285: suspended in power-down with the watchdog disabled, nothing
\* shown, a battery check requested for the next wake-up
DeepSleep ==
  /\ pc = "asleep" /\ ~WDE
  /\ state = STATE_IDLE /\ btnPressState = BTN_NOTPRESSED
  /\ lowBatt = BATT_DOCHECK /\ PORTB = PB3

\* C20: in every behaviour in which the raw button is released from some
\* point on (the processor running and the watchdog timing out while it is
\* enabled), the system reaches deep sleep and stays there: suspended, the
\* watchdog disabled, the Animator Idle, the debouncer NotPressed, the battery
\* state NeedsCheck and the display blank; and it never suspends with the
\* watchdog disabled while a face or the warn pattern is displayed.
C20_ReachesDeepSleep ==
  /\ <>[](~btnRaw) => <>[]DeepSleep
  /\ [](Suspending /\ ~WDE => PORTB = PB3)

\* C20 witness: deep sleep reached after a tap whose roll has run its course
\* and whose low-battery warning has been shown
C20_Witness ==
  /\ DeepSleep /\ ~btnRaw /\ edges = 2 /\ draws = 1
  /\ ADCH <= LOWBATT_VAL /\ ~PCIF

====
